---- MODULE Spec2Model ----
(***************************************************************************)
(* magicgui widget resolution and construction: create_widget              *)
(* (widgets/bases/_create_widget.py) and ButtonWidget                      *)
(* (widgets/bases/_button_widget.py).                                      *)
(*                                                                         *)
(* Python values are records [t, v]: t is the Python type tag and v the    *)
(* payload as a sequence of one-character strings (a class carries its     *)
(* name as a one-element sequence).  A dict is a function from key strings *)
(* to values.                                                              *)
(***************************************************************************)
EXTENDS Naturals, Sequences, FiniteSets, TLC

VARIABLES
    args,           \* the arguments of the create_widget call
    callerOptions,  \* the dict object the caller passed as options
    given,          \* contents of the caller's dict before the first call
    result,         \* outcome of the last create_widget call
    query,          \* the get_widget_class call made by the last call
    trace,          \* what the last call did, in program order
    calls,          \* number of create_widget calls made so far
    bargs,          \* the arguments of the ButtonWidget construction
    button,         \* the ButtonWidget and its backend text slot
    sets            \* number of assignments to ButtonWidget.text so far

vars == <<args, callerOptions, given, result, query, trace, calls, bargs, button, sets>>

createVars == <<args, callerOptions, given, result, query, trace, calls>>

buttonVars == <<bargs, button, sets>>

(* Bounds of the model. *)
MaxCalls == 2

MaxSets == 2

(***************************************************************************)
(* Python values                                                           *)
(***************************************************************************)
None == [t |-> "None", v |-> <<>>]

Undefined == [t |-> "Undefined", v |-> <<>>]

Str(s) == [t |-> "str", v |-> s]

Cls(n) == [t |-> "class", v |-> <<n>>]

Bool(b) == [t |-> "bool", v |-> IF b THEN <<"True">> ELSE <<"False">>]

\* bool(x): None, "" and False are falsy; classes and non-empty strings truthy
Truthy(x) ==
    CASE x.t = "None" -> FALSE
      [] x.t = "str" -> x.v # <<>>
      [] x.t = "bool" -> x.v = <<"True">>
      [] OTHER -> TRUE

\* a or b
Or(a, b) == IF Truthy(a) THEN a ELSE b

EmptyDict == [k \in {} |-> None]

\* d.get(key): the entry, None when the key is absent
Get(d, key) == IF key \in DOMAIN d THEN d[key] ELSE None

\* {**a, **b}: the keys of both, b's value where both have the key
Merge(a, b) ==
    [k \in (DOMAIN a) \cup (DOMAIN b) |-> IF k \in DOMAIN b THEN b[k] ELSE a[k]]

\* d[key] = val
Put(d, key, val) == Merge(d, [k \in {key} |-> val])

\* d without key (the dict left behind by d.pop(key, default))
Without(d, key) == [k \in (DOMAIN d) \ {key} |-> d[k]]

UpperLetters ==
    <<"A","B","C","D","E","F","G","H","I","J","K","L","M",
      "N","O","P","Q","R","S","T","U","V","W","X","Y","Z">>

LowerLetters ==
    <<"a","b","c","d","e","f","g","h","i","j","k","l","m",
      "n","o","p","q","r","s","t","u","v","w","x","y","z">>

lower_char(c) ==
    IF \E i \in DOMAIN UpperLetters : UpperLetters[i] = c
    THEN LowerLetters[CHOOSE i \in DOMAIN UpperLetters : UpperLetters[i] = c]
    ELSE c

\* str.lower()
lower(s) == [i \in DOMAIN s |-> lower_char(s[i])]

\* str.replace(old, new) for one-character old and new
replace(s, old, new) == [i \in DOMAIN s |-> IF s[i] = old THEN new ELSE s[i]]

(***************************************************************************)
(* The strings and classes the calls are made with                         *)
(***************************************************************************)
S_password == <<"p","a","s","s","w","o","r","d">>

S_PassWord == <<"P","a","s","s","W","o","r","d">>

S_pass_word == <<"p","a","s","s","_","w","o","r","d">>

S_Password == <<"P","a","s","s","w","o","r","d">>

S_LineEdit == <<"L","i","n","e","E","d","i","t">>

S_my_name == <<"m","y","_","n","a","m","e">>

S_a_b == <<"a","_","b">>

\* The capability-sets protocols.<p>WidgetProtocol (named by their prefix p,
\* "" for the base WidgetProtocol) each class of the universe conforms to.  Backend
\* classes conform to some; Opaque and the Widget subclasses to none.
ProtocolsOf(n) ==
    CASE n = "RawCategoricalRanged" -> {"Categorical", "Ranged", "Value", ""}
      [] n = "RawRanged" -> {"Ranged", "Value", ""}
      [] n = "RawButton" -> {"Button", "Value", ""}
      [] n = "RawValue" -> {"Value", ""}
      [] n = "RawBase" -> {""}
      [] OTHER -> {}

BackendClasses ==
    {"RawCategoricalRanged", "RawRanged", "RawButton", "RawValue", "RawBase"}

\* Subclasses of magicgui's Widget
WidgetSubclasses == {"LineEdit", "Password", "Slider", "EmptyWidget"}

\* isinstance(x, protocols.<p>WidgetProtocol)
isinstance_protocol(x, p) == x.t = "class" /\ p \in ProtocolsOf(x.v[1])

\* issubclass(c, Widget)
issubclass_Widget(c) == c.t = "class" /\ c.v[1] \in WidgetSubclasses

(***************************************************************************)
(* ButtonWidget (_button_widget.py)                                        *)
(***************************************************************************)
\* line 46: the synonym warning is emitted
WarnsSynonym(text, base_widget_kwargs) ==
    Truthy(text) /\ Truthy(Get(base_widget_kwargs, "label"))

\* line 53: text = text or base_widget_kwargs.get("label")
TextOrLabel(text, base_widget_kwargs) == Or(text, Get(base_widget_kwargs, "label"))

\* line 56: text = text or base_widget_kwargs.pop("description", None)
TextOrDescription(text, base_widget_kwargs) ==
    Or(text, Get(base_widget_kwargs, "description"))

\* line 56: "or" evaluates the pop only when text is falsy, so the
\* description stays in the kwargs handed to super().__init__ otherwise
SuperKwargs(text, base_widget_kwargs) ==
    IF Truthy(text) THEN base_widget_kwargs
    ELSE Without(base_widget_kwargs, "description")

\* self.name once super().__init__ has run: the name keyword, "" by default
Widget_name(base_widget_kwargs) ==
    IF "name" \in DOMAIN base_widget_kwargs /\ base_widget_kwargs["name"].t = "str"
    THEN base_widget_kwargs["name"]
    ELSE Str(<<>>)

\* InitialText without the fallback to self.name
InitialTextNoFallback(text, name) == replace(Or(text, Str(<<>>)).v, "_", " ")

\* line 60: (text or self.name).replace("_", " ")
InitialText(text, name) == replace(Or(text, name).v, "_", " ")

\* lines 74-76: the setter stores the value in the backend's text slot,
\* which the getter of lines 69-72 reads back
text_setter(slot, value) == value

\* lines 46-60: ButtonWidget.__init__
ButtonWidget_init(text, base_widget_kwargs) ==
    LET t1 == TextOrLabel(text, base_widget_kwargs)
        t2 == TextOrDescription(t1, base_widget_kwargs)
        sk == SuperKwargs(t1, base_widget_kwargs)
        name == Widget_name(sk)
    IN  [warned |-> WarnsSynonym(text, base_widget_kwargs),
         super_kwargs |-> sk,
         name |-> name.v,
         text |-> text_setter(<<>>, InitialText(t2, name))]

(***************************************************************************)
(* The type registry, magicgui.type_map.get_widget_class                   *)
(***************************************************************************)
\* The widget class registered under a name
WidgetNamed(s) == IF s = S_Password THEN "Password" ELSE "LineEdit"

\* Default options the registry may return with a class
RegistryDefaults ==
    {EmptyDict, [label |-> Str(<<"R">>), text |-> Str(<<"R">>)]}

\* Classes the registry may map a value/annotation to
TypeMapClasses == {"LineEdit", "Slider"}

LookupAnswer(cls, opts) == [raised |-> FALSE, cls |-> cls, opts |-> opts]

\* get_widget_class(value, annotation, options, is_result, raise_on_unknown):
\* the answers it may give.  A class given as widget_type is returned as it
\* is, a name as the class registered under it; otherwise the type map is
\* searched, and a failed search raises when raise_on_unknown and returns a
\* generic widget class otherwise.
get_widget_class(value, annotation, options, is_result, raise_on_unknown) ==
    LET wt == Get(options, "widget_type") IN
    IF wt.t = "class" THEN {LookupAnswer(wt, EmptyDict)}
    ELSE IF Truthy(wt)
    THEN {LookupAnswer(Cls(WidgetNamed(wt.v)), o) : o \in RegistryDefaults}
    ELSE {LookupAnswer(Cls(c), o) : c \in TypeMapClasses, o \in RegistryDefaults}
         \cup {IF raise_on_unknown
               THEN [raised |-> TRUE, cls |-> None, opts |-> EmptyDict]
               ELSE LookupAnswer(Cls("EmptyWidget"), EmptyDict)}

(***************************************************************************)
(* create_widget (_create_widget.py)                                       *)
(***************************************************************************)
\* options.copy() returning the caller's own dict object
options_copy_alias(ref) == ref

\* line 78: options.copy() is a new dict object, "work"; the object the
\* caller passed is "caller"
options_copy(ref) == "work"

\* lines 79-85
base_kwargs(a) ==
    [k \in {"value", "annotation", "name", "label", "gui_only"} |-> a[k]]

UsesGivenClassNever(widget_type) == FALSE

\* line 88: isinstance(widget_type, protocols.WidgetProtocol)
UsesGivenClass(widget_type) == isinstance_protocol(widget_type, "")

\* lines 93-94
WithWidgetType(_options, widget_type) ==
    IF Truthy(widget_type) THEN Put(_options, "widget_type", widget_type)
    ELSE _options

\* the heuristic comparing the name without lower()
PasswordHeuristicCaseSensitive(_options, name, annotation) ==
    /\ ~Truthy(Get(_options, "widget_type"))
    /\ Or(name, Str(<<>>)).v = S_password
    /\ annotation = Cls("str")

\* lines 96-100
PasswordHeuristic(_options, name, annotation) ==
    /\ ~Truthy(Get(_options, "widget_type"))
    /\ lower(Or(name, Str(<<>>)).v) = S_password
    /\ annotation = Cls("str")

\* lines 93-101: _options as handed to get_widget_class
InjectedOptions(_options, widget_type, name, annotation) ==
    LET o1 == WithWidgetType(_options, widget_type) IN
    IF PasswordHeuristic(o1, name, annotation)
    THEN Put(o1, "widget_type", Str(S_Password))
    ELSE o1

\* the merge with the registry defaults applied last
FullWidgetArgsDefaultsLast(kwargs, opts, _options) ==
    Merge(Merge(kwargs, _options), opts)

\* line 108: {**kwargs, **opts, **_options}
FullWidgetArgs(kwargs, opts, _options) == Merge(Merge(kwargs, opts), _options)

\* the capability-sets with Value checked before Ranged and Button
ProtocolOrderValueFirst == <<"Categorical", "Value", "Ranged", "Button", "">>

\* line 115
ProtocolOrder == <<"Categorical", "Ranged", "Button", "Value", "">>

\* line 120: getattr(bases, f"{p}Widget")
WrapperName(p) ==
    CASE p = "Categorical" -> "CategoricalWidget"
      [] p = "Ranged" -> "RangedWidget"
      [] p = "Button" -> "ButtonWidget"
      [] p = "Value" -> "ValueWidget"
      [] OTHER -> "Widget"

\* the check with every class taken to implement the base protocol
MatchesBaseAlways(wdg_class, p) == p = "" \/ isinstance_protocol(wdg_class, p)

\* line 117: isinstance(wdg_class, prot)
Matches(wdg_class, p) == isinstance_protocol(wdg_class, p)

\* lines 115-117: the index in ProtocolOrder of the first capability-set
\* wdg_class matches, 0 when the loop ends without a match
FirstMatch(wdg_class) ==
    LET M == {i \in DOMAIN ProtocolOrder : Matches(wdg_class, ProtocolOrder[i])} IN
    IF M = {} THEN 0 ELSE CHOOSE i \in M : \A j \in M : i <= j

\* lines 119-121: {**kwargs, **(_options or {}), "widget_type": wdg_class}
\* with _options = kwargs.pop("options", None)
WrapperArgs(kwargs, wdg_class) ==
    LET _options == IF "options" \in DOMAIN kwargs THEN kwargs["options"] ELSE EmptyDict
    IN  Put(Merge(Without(kwargs, "options"), _options), "widget_type", wdg_class)

\* cls(**ctor): the widget, with the text ButtonWidget.__init__ gives it
Construct(cls, ctor, backend) ==
    [kind |-> "widget", cls |-> cls, backend |-> backend, ctor |-> ctor,
     pk_set |-> FALSE, param_kind |-> None, offending |-> None,
     text |-> IF cls = "ButtonWidget"
              THEN Str(ButtonWidget_init(Get(ctor, "text"),
                          [k \in (DOMAIN ctor) \ {"value", "text", "bind", "nullable"}
                              |-> ctor[k]]).text)
              ELSE None]

\* raise: no widget is returned
Raise(kind, offending) ==
    [kind |-> kind, cls |-> "", backend |-> None, ctor |-> EmptyDict,
     pk_set |-> FALSE, param_kind |-> None, offending |-> offending,
     text |-> None]

\* lines 109-110 and 122-123: if param_kind: widget.param_kind = param_kind
AttachParamKind(widget, param_kind) ==
    IF Truthy(param_kind)
    THEN [widget EXCEPT !.pk_set = TRUE, !.param_kind = param_kind]
    ELSE widget

\* the loop constructing the generic wrapper before checking conformance
WrapLoopConstructFirst(wdg_class, kwargs, param_kind) ==
    LET i == FirstMatch(wdg_class) IN
    IF i = 0
    THEN [trace |-> <<"construct", "raise">>, result |-> Raise("TypeError", wdg_class)]
    ELSE [trace |-> <<"construct">>,
          result |-> AttachParamKind(
                        Construct(WrapperName(ProtocolOrder[i]),
                                  WrapperArgs(kwargs, wdg_class), wdg_class),
                        param_kind)]

\* lines 115-126: wrap the backend class, or raise TypeError
WrapLoop(wdg_class, kwargs, param_kind) ==
    LET i == FirstMatch(wdg_class) IN
    IF i = 0
    THEN [trace |-> <<"raise">>, result |-> Raise("TypeError", wdg_class)]
    ELSE [trace |-> <<"construct">>,
          result |-> AttachParamKind(
                        Construct(WrapperName(ProtocolOrder[i]),
                                  WrapperArgs(kwargs, wdg_class), wdg_class),
                        param_kind)]

NoQuery ==
    [asked |-> FALSE, value |-> None, annotation |-> None, options |-> EmptyDict,
     is_result |-> FALSE, raise_on_unknown |-> FALSE, answer |-> LookupAnswer(None, EmptyDict)]

\* lines 103-111 and the fall through to 115-126, for one answer of the
\* registry
AfterLookup(a, kwargs, _options, answer, caller) ==
    LET q == [asked |-> TRUE, value |-> a.value, annotation |-> a.annotation,
              options |-> _options, is_result |-> a.is_result,
              raise_on_unknown |-> a.raise_on_unknown, answer |-> answer]
    IN  IF answer.raised
        THEN [result |-> Raise("LookupError", None), trace |-> <<"query", "raise">>,
              query |-> q, caller |-> caller]
        ELSE IF issubclass_Widget(answer.cls)
        THEN [result |-> AttachParamKind(
                            Construct(answer.cls.v[1],
                                      FullWidgetArgs(kwargs, answer.opts, _options),
                                      None),
                            a.param_kind),
              trace |-> <<"query", "construct">>, query |-> q, caller |-> caller]
        ELSE LET w == WrapLoop(answer.cls, kwargs, a.param_kind) IN
             [result |-> w.result, trace |-> <<"query">> \o w.trace,
              query |-> q, caller |-> caller]

\* lines 78-126: the outcomes of create_widget(**a) when the caller's dict
\* holds callerDict.  heap maps the dict objects to their contents.  The
\* trace starts with the use_app(app) of line 87, which obtains the
\* application backend.
create_widget_outcomes(a, callerDict) ==
    LET ref == IF a.options = "None" THEN "work" ELSE options_copy("caller")
        heap0 == [r \in {"caller", "work"} |->
                    IF r = "caller" THEN callerDict ELSE EmptyDict]
        heap1 == [heap0 EXCEPT ![ref] =
                    IF a.options = "None" THEN EmptyDict ELSE callerDict]
        kwargs == base_kwargs(a)
    IN  IF UsesGivenClass(a.widget_type)
        THEN LET w == WrapLoop(a.widget_type, kwargs, a.param_kind) IN
             {[result |-> w.result, trace |-> <<"use_app">> \o w.trace, query |-> NoQuery,
               caller |-> heap1["caller"]]}
        ELSE LET heap2 == [heap1 EXCEPT ![ref] =
                             InjectedOptions(heap1[ref], a.widget_type, a.name,
                                             a.annotation)]
             IN  {[o EXCEPT !.trace = <<"use_app">> \o @] :
                   o \in {AfterLookup(a, kwargs, heap2[ref], answer, heap2["caller"]) :
                     answer \in get_widget_class(a.value, a.annotation, heap2[ref],
                                                 a.is_result, a.raise_on_unknown)}}

(***************************************************************************)
(* The calls made                                                          *)
(***************************************************************************)
WidgetTypeArgs ==
    {None, Str(<<>>), Str(S_LineEdit), Cls("Opaque"), Cls("LineEdit")}
    \cup {Cls(c) : c \in BackendClasses}

OptionDicts ==
    {EmptyDict,
     [text |-> Str(<<"A">>)],
     [widget_type |-> Str(<<>>)],
     [widget_type |-> None, label |-> Str(<<"O">>)],
     [widget_type |-> Str(S_LineEdit), label |-> Str(<<"O">>)],
     [widget_type |-> Cls("RawValue")],
     [widget_type |-> Cls("Opaque")]}

Names == {Str(<<>>), Str(S_password), Str(S_PassWord), Str(S_pass_word)}

CallArgs ==
    [value : {Undefined, Str(<<"v">>)},
     annotation : {Cls("str"), Cls("int")},
     name : Names,
     param_kind : {Str(<<>>), Str(<<"POSITIONAL_OR_KEYWORD">>)},
     label : {None, Str(<<"B">>)},
     gui_only : {Bool(FALSE)},
     widget_type : WidgetTypeArgs,
     options : {"None", "caller"},
     is_result : {FALSE},
     raise_on_unknown : BOOLEAN]

IdleArgs == CHOOSE a \in CallArgs : a.options = "None" /\ a.widget_type = None

ButtonTexts == {None, Str(<<>>), Str(<<"A">>), Str(S_a_b)}

ButtonKwargs ==
    {Merge(Merge(l, d), n) :
        l \in {EmptyDict, [label |-> Str(<<"B">>)], [label |-> Str(<<"b", "_", "c">>)]},
        d \in {EmptyDict, [description |-> Str(<<"D">>)]},
        n \in {EmptyDict, [name |-> Str(S_my_name)], [name |-> Str(<<"n">>)]}}

AssignedTexts == {<<>>, <<"A">>, S_a_b}

NoButton ==
    [built |-> FALSE, last |-> "none", warned |-> FALSE, name |-> <<>>, text |-> <<>>,
     assigned |-> <<>>]

IdleButtonArgs == [text |-> None, kwargs |-> EmptyDict]

CreateInit ==
    /\ args \in CallArgs
    /\ given \in IF args.options = "None" THEN {EmptyDict} ELSE OptionDicts
    /\ callerOptions = given
    /\ result = Raise("none", None)
    /\ query = NoQuery
    /\ trace = <<>>
    /\ calls = 0

ButtonInit ==
    /\ bargs \in [text : ButtonTexts, kwargs : ButtonKwargs]
    /\ button = NoButton
    /\ sets = 0

Init ==
    /\ CreateInit
    /\ bargs = IdleButtonArgs /\ button = NoButton /\ sets = 0

InitButton ==
    /\ ButtonInit
    /\ args = IdleArgs /\ given = EmptyDict /\ callerOptions = EmptyDict
    /\ result = Raise("none", None) /\ query = NoQuery /\ trace = <<>> /\ calls = 0

\* one call create_widget(**args) with the caller's dict
create_widget ==
    /\ calls < MaxCalls
    /\ \E out \in create_widget_outcomes(args, callerOptions) :
          /\ result' = out.result
          /\ query' = out.query
          /\ trace' = out.trace
          /\ callerOptions' = out.caller
    /\ calls' = calls + 1
    /\ UNCHANGED <<args, given>>
    /\ UNCHANGED buttonVars

\* ButtonWidget(text=bargs.text, **bargs.kwargs)
ButtonWidget___init__ ==
    /\ ~button.built
    /\ LET b == ButtonWidget_init(bargs.text, bargs.kwargs) IN
          button' = [built |-> TRUE, last |-> "init", warned |-> b.warned,
                     name |-> b.name, text |-> b.text, assigned |-> <<>>]
    /\ UNCHANGED <<bargs, sets>>
    /\ UNCHANGED createVars

\* widget.text = value
ButtonWidget_text_set ==
    /\ button.built
    /\ sets < MaxSets
    /\ \E value \in AssignedTexts :
          button' = [button EXCEPT !.last = "set", !.assigned = value,
                                   !.text = text_setter(button.text, value)]
    /\ sets' = sets + 1
    /\ UNCHANGED bargs
    /\ UNCHANGED createVars

Next == create_widget

NextButton == ButtonWidget___init__ \/ ButtonWidget_text_set

Spec == Init /\ [][Next]_vars

SpecButton == InitButton /\ [][NextButton]_vars

(***************************************************************************)
(* Properties                                                              *)
(***************************************************************************)
Called == calls > 0

\* the class create_widget goes on with: the given one, or the registry's
Candidate == IF query.asked THEN query.answer.cls ELSE args.widget_type

\* a class that is no Widget subclass and conforms to no capability-set
NonConforming(c) ==
    c.t = "class" /\ ProtocolsOf(c.v[1]) = {} /\ c.v[1] \notin WidgetSubclasses

WrappedBackend == Called /\ result.kind = "widget" /\ result.backend # None

FullWidget == Called /\ result.kind = "widget" /\ result.backend = None

Count(seq, e) == Cardinality({i \in DOMAIN seq : seq[i] = e})

\* C1: when the widget_type argument conforms to WidgetProtocol, that class
\* is the one wrapped and returned and get_widget_class is not called.
C1_GivenClassWins ==
    (Called /\ isinstance_protocol(args.widget_type, ""))
        => /\ result.kind = "widget"
           /\ result.backend = args.widget_type
           /\ Get(result.ctor, "widget_type") = args.widget_type
           /\ ~query.asked
           /\ Count(trace, "query") = 0

C1_Witness ==
    /\ Called
    /\ isinstance_protocol(args.widget_type, "")
    /\ args.options = "caller"
    /\ "widget_type" \in DOMAIN given
    /\ result.kind = "widget"

\* C2 as stated: a candidate class matching no capability-set makes the call
\* raise TypeError naming it when raise_on_unknown is True, and return a
\* widget when raise_on_unknown is False.
C2_Original ==
    (Called /\ NonConforming(Candidate))
        => IF args.raise_on_unknown
           THEN result.kind = "TypeError" /\ result.offending = Candidate
           ELSE result.kind = "widget"

\* C2 amended: a candidate class matching no capability-set makes the call
\* raise TypeError naming it whatever raise_on_unknown is, TypeError is raised
\* in no other case, and raise_on_unknown is only handed on to
\* get_widget_class.
C2_TypeErrorWhateverFlag ==
    Called
        => /\ NonConforming(Candidate)
                => result.kind = "TypeError" /\ result.offending = Candidate
           /\ result.kind = "TypeError" => NonConforming(Candidate)
           /\ query.asked => query.raise_on_unknown = args.raise_on_unknown

C2_Witness ==
    /\ Called
    /\ ~args.raise_on_unknown
    /\ query.asked
    /\ result.kind = "TypeError"
    /\ result.offending = Cls("Opaque")

\* C3: when a raw backend class is wrapped, every key of the caller's options
\* and of the registry's default options reaches the wrapper constructor,
\* with the base kwargs and the backend class, and param_kind is attached.
C3_OptionsForwarded ==
    WrappedBackend
        => /\ \A k \in DOMAIN given : k \in DOMAIN result.ctor
           /\ \A k \in (DOMAIN given) \ {"widget_type"} : result.ctor[k] = given[k]
           /\ query.asked => \A k \in DOMAIN query.answer.opts : k \in DOMAIN result.ctor
           /\ \A k \in DOMAIN base_kwargs(args) : k \in DOMAIN result.ctor
           /\ Get(result.ctor, "widget_type") = result.backend
           /\ Truthy(args.param_kind) => result.param_kind = args.param_kind

\* C4: a full Widget subclass returned by the registry is instantiated with
\* the union of base kwargs, registry defaults and explicit options (the
\* options as handed to the registry: the caller's entries, with the
\* widget_type entry the call itself sets), the explicit option winning over
\* the registry default and that over the base kwarg on every shared key;
\* param_kind is set exactly when it is non-empty.
C4_MergePrecedence ==
    FullWidget
        => LET kw == [k \in {"value", "annotation", "name", "label", "gui_only"}
                        |-> args[k]]
               opts == query.answer.opts
               ex == query.options
           IN  /\ query.asked
               /\ result.cls = query.answer.cls.v[1]
               /\ DOMAIN result.ctor = (DOMAIN kw) \cup (DOMAIN opts) \cup (DOMAIN ex)
               /\ \A k \in DOMAIN result.ctor :
                     result.ctor[k] = IF k \in DOMAIN ex THEN ex[k]
                                      ELSE IF k \in DOMAIN opts THEN opts[k]
                                      ELSE kw[k]
               /\ \A k \in (DOMAIN given) \ {"widget_type"} :
                     k \in DOMAIN ex /\ ex[k] = given[k]
               /\ DOMAIN ex \subseteq (DOMAIN given) \cup {"widget_type"}
               /\ result.pk_set = Truthy(args.param_kind)
               /\ result.pk_set => result.param_kind = args.param_kind

C4_Witness ==
    /\ FullWidget
    /\ args.label # None
    /\ "label" \in DOMAIN query.options
    /\ "label" \in DOMAIN query.answer.opts
    /\ query.options["label"] # query.answer.opts["label"]
    /\ result.pk_set

ExplicitWidgetType ==
    Truthy(args.widget_type) \/ Truthy(Get(given, "widget_type"))

PasswordCase ==
    /\ lower(args.name.v) = S_password
    /\ args.annotation = Cls("str")
    /\ ~ExplicitWidgetType

\* C5: a parameter named "password" in any letter case, annotated str, with
\* no explicit widget type, has "Password" requested from the registry; in
\* every other case the registry is asked with the caller's options and the
\* widget_type argument only.
C5_PasswordHeuristic ==
    Called
        => IF PasswordCase
           THEN query.asked /\ Get(query.options, "widget_type") = Str(S_Password)
           ELSE query.asked
                   => query.options =
                         IF Truthy(args.widget_type)
                         THEN Put(given, "widget_type", args.widget_type)
                         ELSE given

C5_Witness ==
    /\ Called
    /\ PasswordCase
    /\ args.name = Str(S_PassWord)
    /\ result.kind = "widget"
    /\ result.cls = "Password"

\* C8: the wrapper of a raw backend class is that of the first capability-set
\* the class satisfies in the order categorical, ranged, button,
\* single-value, generic.
C8_FirstProtocolWins ==
    WrappedBackend
        => LET P == ProtocolsOf(result.backend.v[1]) IN
           result.cls = IF "Categorical" \in P THEN "CategoricalWidget"
                        ELSE IF "Ranged" \in P THEN "RangedWidget"
                        ELSE IF "Button" \in P THEN "ButtonWidget"
                        ELSE IF "Value" \in P THEN "ValueWidget"
                        ELSE "Widget"

C8_Witness ==
    /\ WrappedBackend
    /\ result.backend = Cls("RawRanged")
    /\ result.cls = "RangedWidget"

\* C9: a call ends either with a widget or with an error, and when it ends
\* with an error nothing was constructed during the call.
C9_ErrorBeforeConstruction ==
    Called
        => /\ result.kind \in {"widget", "TypeError", "LookupError"}
           /\ result.kind = "widget"
                => Count(trace, "construct") = 1 /\ Count(trace, "raise") = 0
           /\ result.kind # "widget"
                => /\ Count(trace, "construct") = 0
                   /\ Count(trace, "raise") = 1
                   /\ result.cls = "" /\ result.ctor = EmptyDict

C9_Witness ==
    /\ Called
    /\ result.kind = "TypeError"
    /\ query.asked
    /\ trace = <<"use_app", "query", "raise">>

\* C10: the dict the caller passed as options holds after every call what it
\* held before the first.
C10_OptionsUntouched == callerOptions = given

C10_Witness ==
    /\ calls > 1
    /\ args.options = "caller"
    /\ query.asked
    /\ query.options # given
    /\ result.kind = "widget"

ButtonLabel == Get(bargs.kwargs, "label")

ButtonDescription == Get(bargs.kwargs, "description")

ButtonName == Get(bargs.kwargs, "name")

\* C6: after construction the display text is the text when text and label
\* are both given, the label when it is given without text, and the name
\* with "_" replaced by " " when none of text, label, description is given.
C6_TextChain ==
    button.last = "init"
        => /\ (Truthy(bargs.text) /\ Truthy(ButtonLabel))
                => button.text = bargs.text.v
           /\ (bargs.text = None /\ Truthy(ButtonLabel))
                => button.text = ButtonLabel.v
           /\ (bargs.text = None /\ ButtonLabel = None /\ ButtonDescription = None)
                => button.text = replace(button.name, "_", " ")

\* C7 as stated: the text of a constructed button is never empty.
C7_Original == button.built => button.text # <<>>

\* C7 amended: after construction the text is non-empty exactly when one of
\* text, label, description and name is non-empty, and after an assignment
\* reading text returns the assigned string, empty or not.
C7_TextEmptyOnlyIfAllEmpty ==
    /\ button.last = "init"
          => (button.text # <<>>
                 <=> \/ Truthy(bargs.text) \/ Truthy(ButtonLabel)
                     \/ Truthy(ButtonDescription) \/ Truthy(ButtonName))
    /\ button.last = "set" => button.text = button.assigned

C7_Witness ==
    /\ button.last = "init"
    /\ bargs.text = None /\ ButtonLabel = None /\ ButtonDescription = None
    /\ button.text = <<"n">>

====
